---- MODULE Spec2Model ----
(***************************************************************************)
(* A model of layabout.py: the handler registry of Layabout, the           *)
(* connection logic of _SlackClientWrapper and the event loop of           *)
(* Layabout.run, with the Slack client (rtm_connect, rtm_read, the         *)
(* websocket's connected flag), the until predicate and the jitter of the  *)
(* default backoff as the environment.                                     *)
(***************************************************************************)
EXTENDS Integers, Sequences, FiniteSets, TLC

VARIABLES
    handlers,   \* Layabout._handlers: event type -> list of registrations
    slack,      \* Layabout._slack: the id of the wrapper _ensure_slack stored, 0 for None
    wrapper,    \* the _SlackClientWrapper the current run constructed (self in its methods)
    connected,  \* inner.server.websocket.connected of the wrapper's SlackClient
    pc,         \* position of the control in run
    outcome,    \* how the last run call ended ("none" while it runs or before any)
    until,      \* the until argument of the current run: "forever" (absent) or "custom"
    ret,        \* the caller connect_with_retry returns to: "init" or "fetch"
    retry,      \* the loop variable of connect_with_retry
    events,     \* the list fetch_events returned to run
    i,          \* index in events of the event being handled
    todo,       \* the list self._handlers[type_] + self._handlers['*'] of that event
    j,          \* index in todo of the next handler to call
    ops,        \* history: what the run did since its last rtm_read (or since it began)
    polls,      \* history: rtm_read calls of the current run
    made,       \* history: SlackClient objects the current run constructed
    runs,       \* history: run calls so far
    calls,      \* history: the handler calls since the last rtm_read, with their arguments
    typeError,  \* the TypeError of the last step, if it was a handle call that raised
    backoff,    \* a direct call of _truncated_exponential: its arguments and its result
    seen        \* history: self._handlers as it was when todo was built

vars == <<handlers, slack, wrapper, connected, pc, outcome, until, ret, retry,
          events, i, todo, j, ops, polls, made, runs, calls, typeError, backoff, seen>>

-----------------------------------------------------------------------------
(* Bounds of the model. *)

MaxRegs == 2        \* registrations made in one behaviour
MaxRetries == 2     \* largest retries argument of run
MaxPolls == 2       \* rtm_read calls of one run
MaxRuns == 1        \* run calls in one behaviour

MaxBackoffRetry == 20   \* largest argument of a direct call of _truncated_exponential

(* Program constants. *)

BackoffCapMs == 64000   \* the cap of _truncated_exponential, in milliseconds
JitterRange == 1000     \* random.randrange(1000)
IntervalMs == 500       \* the default interval of run, 0.5 s

\* Python's None, as os.getenv returns it.
None == "None"

\* A wrapper is its fields inner and retries (backoff is _truncated_exponential
\* throughout) and an id, the number of the run that constructed it.  inner is 0
\* for the caller's SlackClient and the number of the run for one made from a
\* token.  NoWrapper stands for no wrapper at all.
NoWrapper == [id |-> 0, inner |-> -1, retries |-> 0]

\* The event types handlers are registered for, and the callbacks registered.
Types == {"hello", "goodbye", "*", ""}
RegTypes == {"hello", "*", ""}
Callbacks == {"f"}

\* The keyword arguments given to handle: none, or spam='eggs'.
NoKwargs == <<>>
Spam == [spam |-> "eggs"]
Kwargs == {NoKwargs, Spam}

\* No call of handle.
NoHandle == [type |-> None, kwargs |-> NoKwargs]

\* The calls handle(type, **kwargs) of the model.
Handles ==
    { [type |-> "hello", kwargs |-> NoKwargs],
      [type |-> "*", kwargs |-> Spam],
      [type |-> "", kwargs |-> NoKwargs] }

\* The signatures of the callbacks given to handle: the kinds of their
\* parameters, as inspect.signature lists them.  def h(), def h(event),
\* def h(slack, event), def h(slack, event, extra), def h(*args) and
\* def h(slack, *, event).
Signatures ==
    { <<>>,
      <<"positional">>,
      <<"positional", "positional">>,
      <<"positional", "positional", "positional">>,
      <<"var_positional">>,
      <<"positional", "keyword_only">> }

\* No call of _truncated_exponential.  (In a call, ms is -1 until it returns.)
NoBackoff == [retry |-> 0, jitter |-> 0, ms |-> -2]

\* No TypeError.
NoError == [name |-> "", missing |-> 0, plural |-> "", arguments |-> ""]

\* Events are dicts; only the key 'type' is read.  <<>> is the dict without it.
Hello == [type |-> "hello"]
Goodbye == [type |-> "goodbye"]
Star == [type |-> "*"]
NoType == <<>>

\* The lists rtm_read returns in the model.
Batches == {<<>>, <<Hello, Goodbye>>, <<Star>>, <<NoType, Hello>>}

\* The values random.randrange(1000) takes in the model: both ends of its range.
Jitters == {0, JitterRange - 1}

\* The connector arguments of run in the model.
Connectors ==
    { [kind |-> "None"],
      [kind |-> "EnvVar"],
      [kind |-> "str", value |-> "xoxb"],
      [kind |-> "str", value |-> ""],
      [kind |-> "SlackClient"],
      [kind |-> "int"] }

\* What os.getenv gives for an environment variable: unset, empty or a token.
EnvValues == {None, "", "xoxb"}

\* The values of the environment variable that matter to a run: os.getenv is
\* called only for an EnvVar (None stands for the default one).
EnvRead(connector) ==
    IF connector.kind \in {"None", "EnvVar"} THEN EnvValues ELSE {None}

\* The states of the websocket that matter to a run: only a SlackClient of
\* the caller's can be connected before run.
UpRead(connector) ==
    IF connector.kind = "SlackClient" THEN BOOLEAN ELSE {FALSE}

-----------------------------------------------------------------------------
(* Helpers. *)

Min(a, b) == IF a <= b THEN a ELSE b

\* dict.get(key, default)
Get(d, key, default) == IF key \in DOMAIN d THEN d[key] ELSE default

\* One entry of the history ops: a call the run made.  "cwr" is a call of
\* connect_with_retry, "connect" one of rtm_connect, "sleep" the time.sleep of
\* connect_with_retry and ms its argument, "read" a rtm_read that returned ev
\* events, "read_lost" and "read_error" one that raised, "until" a call of until
\* with a list of ev events, "call" the call of the handler registered as rid
\* with event number ev of the list, "interval" the time.sleep of run.
\* ev, rid and ms are 0 where they do not apply.
Op(op, ev, rid, ms) == [op |-> op, ev |-> ev, rid |-> rid, ms |-> ms]

SelectOps(s, name) == SelectSeq(s, LAMBDA o : o.op = name)
CountOps(s, name) == Len(SelectOps(s, name))

\* All registrations of a registry, as a set.
RegsOf(h) == UNION { { h[t][k] : k \in 1..Len(h[t]) } : t \in Types }
NumRegs(h) == Cardinality(RegsOf(h))

-----------------------------------------------------------------------------
(* Pure functions of the program. *)

\* TruncatedExponential as it would be without min.
TruncatedExponentialUncapped(r, jitter) == (2 ^ r) + jitter

\* _truncated_exponential, in milliseconds, for one value of random.randrange.
TruncatedExponential(r, jitter) == Min((2 ^ r) + jitter, BackoffCapMs)

\* EventType as it would be with '*' for the default.
EventTypeStar(event) == Get(event, "type", "*")

\* type_ = event.get('type', '')
EventType(event) == Get(event, "type", "")

\* Lookup as it would be with the '*' list first.
LookupWildcardFirst(h, type_) == h["*"] \o h[type_]

\* self._handlers[type_] + self._handlers['*']
Lookup(h, type_) == h[type_] \o h["*"]

\* RetryRange as it would be with range(1, self.retries).
RetryRangeShort(retries) == 1..(retries - 1)

\* RetryRange as it would be with range(1, self.retries + 2).
RetryRangeLong(retries) == 1..(retries + 1)

\* RetryRange as it would be if rtm_connect were tried once at least.
RetryRangeOnce(retries) == 1..(IF retries = 0 THEN 1 ELSE retries)

\* range(1, self.retries + 1)
RetryRange(retries) == 1..retries

\* num_params = len(sig.parameters)
NumParams(sig) == Len(sig)

\* _format_parameter_error_message: the parts of the message.
FormatParameterErrorMessage(name, numParams) ==
    IF numParams = 0
      THEN [name |-> name, missing |-> 2, plural |-> "s",
            arguments |-> "'slack' and 'event'"]
      ELSE [name |-> name, missing |-> 1, plural |-> "", arguments |-> "'event'"]

\* CreateSlack as it would be without the checks of the token.
CreateSlackUnchecked(connector, env) ==
    CASE connector.kind \in {"None", "EnvVar", "str", "SlackClient"} -> "ok"
      [] OTHER -> "TypeError"

\* _create_slack: the error it raises for a connector, or "ok".
\* A None connector is self._env_var, an EnvVar, looked up with os.getenv.
CreateSlack(connector, env) ==
    CASE connector.kind \in {"None", "EnvVar"} ->
            IF env = None \/ env = "" THEN "MissingSlackToken" ELSE "ok"
      [] connector.kind = "str" ->
            IF connector.value = "" THEN "MissingSlackToken" ELSE "ok"
      [] connector.kind = "SlackClient" -> "ok"
      [] OTHER -> "TypeError"

\* Client as it would be if run made its own SlackClient from the caller's.
ClientCopied(connector, n, isUp) == [inner |-> n, connected |-> FALSE, made |-> 1]

\* The SlackClient _create_slack returns when it raises nothing, in run number
\* n: the caller's (inner 0), given as it is, connected (isUp) or not, or a new
\* one made from the token (inner n), not connected; made counts the new ones.
Client(connector, n, isUp) ==
    IF connector.kind = "SlackClient"
      THEN [inner |-> 0, connected |-> isUp, made |-> 0]
      ELSE [inner |-> n, connected |-> FALSE, made |-> 1]

\* The retries and until arguments that matter to a run: none is read when
\* _create_slack raises.
RetriesRead(connector, env) ==
    IF CreateSlack(connector, env) = "ok" THEN 0..MaxRetries ELSE {0}

UntilRead(connector, env) ==
    IF CreateSlack(connector, env) = "ok" THEN {"forever", "custom"} ELSE {"forever"}

\* The signatures handle accepts.
Accepted == { sig \in Signatures : NumParams(sig) >= 2 }

-----------------------------------------------------------------------------
Init ==
    /\ handlers = [t \in Types |-> <<>>]
    /\ slack = 0
    /\ wrapper = NoWrapper
    /\ connected = FALSE
    /\ pc = "idle"
    /\ outcome = "none"
    /\ until = "forever"
    /\ ret = "init"
    /\ retry = 0
    /\ events = <<>>
    /\ i = 0
    /\ todo = <<>>
    /\ j = 0
    /\ ops = <<>>
    /\ polls = 0
    /\ made = 0
    /\ runs = 0
    /\ calls = <<>>
    /\ typeError = NoError
    /\ backoff = NoBackoff
    /\ seen = [t \in Types |-> <<>>]

\* The locals of run, as they are when no run is active.
NoLocals ==
    /\ ret' = "init"
    /\ retry' = 0
    /\ events' = <<>>
    /\ i' = 0
    /\ todo' = <<>>
    /\ j' = 0
    /\ seen' = [t \in Types |-> <<>>]

\* run ends: it returns ("returned") or an exception leaves it.
EndRun(how) ==
    /\ pc' = "idle"
    /\ outcome' = how
    /\ wrapper' = NoWrapper
    /\ NoLocals

-----------------------------------------------------------------------------
(* Layabout.handle(type)(fn): register fn, whose signature is sig, for     *)
(* type, or raise TypeError when sig has fewer than two parameters.         *)

\* self._handlers[type].append((fn, kwargs)); rid numbers the registrations
\* in the order they are made.
Appended(h, type, fn, kwargs) ==
    [h EXCEPT ![type] = Append(@, [rid |-> NumRegs(h) + 1, fn |-> fn, kwargs |-> kwargs])]

\* Register as it would be with insert(0, ...) for append.
RegisterFirst(type, fn, kwargs, sig) ==
    /\ pc = "idle"
    /\ IF NumParams(sig) < 2
         THEN /\ typeError' = FormatParameterErrorMessage(fn, NumParams(sig))
              /\ handlers' = handlers
         ELSE /\ NumRegs(handlers) < MaxRegs
              /\ typeError' = NoError
              /\ handlers' = [handlers EXCEPT
                     ![type] = <<[rid |-> NumRegs(handlers) + 1, fn |-> fn,
                                  kwargs |-> kwargs]>> \o @]
    /\ UNCHANGED <<slack, wrapper, connected, pc, outcome, until, ret, retry,
                   events, i, todo, j, ops, polls, made, runs, calls, backoff, seen>>

Register(type, fn, kwargs, sig) ==
    /\ pc = "idle"
    /\ IF NumParams(sig) < 2
         THEN /\ typeError' = FormatParameterErrorMessage(fn, NumParams(sig))
              /\ handlers' = handlers
         ELSE /\ NumRegs(handlers) < MaxRegs
              /\ typeError' = NoError
              /\ handlers' = Appended(handlers, type, fn, kwargs)
    /\ UNCHANGED <<slack, wrapper, connected, pc, outcome, until, ret, retry,
                   events, i, todo, j, ops, polls, made, runs, calls, backoff, seen>>

-----------------------------------------------------------------------------
(* Layabout.run up to the construction of the wrapper: _ensure_slack and   *)
(* _create_slack.  The wrapper's __init__ goes on in connect_with_retry.   *)

RunCall(connector, env, retries, untilArg, isUp) ==
    /\ pc = "idle"
    /\ runs < MaxRuns
    /\ runs' = runs + 1
    /\ ops' = <<>>
    /\ calls' = <<>>
    /\ typeError' = NoError
    /\ polls' = 0
    /\ until' = untilArg
    /\ UNCHANGED <<handlers, slack, backoff>>
    /\ IF CreateSlack(connector, env) # "ok"
         THEN /\ pc' = "idle"
              /\ outcome' = CreateSlack(connector, env)
              /\ NoLocals
              /\ made' = 0
              /\ UNCHANGED <<wrapper, connected>>
         ELSE /\ wrapper' = [id |-> runs + 1,
                              inner |-> Client(connector, runs + 1, isUp).inner,
                              retries |-> retries]
              /\ connected' = Client(connector, runs + 1, isUp).connected
              /\ made' = Client(connector, runs + 1, isUp).made
              /\ pc' = "cwr"
              /\ outcome' = "none"
              /\ ret' = "init"
              /\ UNCHANGED <<retry, events, i, todo, j, seen>>

-----------------------------------------------------------------------------
(* _SlackClientWrapper.connect_with_retry.                                 *)

\* connect_with_retry returns: to __init__, after which _ensure_slack stores
\* the wrapper and run enters its loop, or to fetch_events, which returns [].
CwrReturn ==
    /\ IF ret = "init"
         THEN /\ slack' = wrapper.id
              /\ pc' = "fetch"
              /\ events' = events
         ELSE /\ slack' = slack
              /\ pc' = "until"
              /\ events' = <<>>
    /\ seen' = seen
    /\ UNCHANGED <<handlers, wrapper, outcome, until, ret, i, todo, j,
                   polls, made, runs, calls, typeError, backoff>>

\* CwrEnter as it would be without the check of is_connected.
CwrEnterNoCheck ==
    /\ pc = "cwr"
    /\ ops' = Append(ops, Op("cwr", 0, 0, 0))
    /\ pc' = "cwr_loop"
    /\ retry' = 0
    /\ UNCHANGED <<handlers, slack, wrapper, connected, outcome, until,
                   ret, events, i, todo, j, polls, made, runs, calls, typeError, backoff, seen>>

\* connect_with_retry is called.  if self.is_connected(): return
CwrEnter ==
    /\ pc = "cwr"
    /\ ops' = Append(ops, Op("cwr", 0, 0, 0))
    /\ IF connected
         THEN /\ CwrReturn
              /\ UNCHANGED <<connected, retry>>
         ELSE /\ pc' = "cwr_loop"
              /\ retry' = 0
              /\ UNCHANGED <<handlers, slack, wrapper, connected, outcome, until,
                             ret, events, i, todo, j, polls, made, runs, calls, typeError, backoff, seen>>

\* CwrAttempt as it would be if every attempt made a SlackClient of its own.
CwrAttemptNewClient(up, jitter) ==
    /\ pc = "cwr_loop"
    /\ retry + 1 \in RetryRange(wrapper.retries)
    /\ retry' = retry + 1
    /\ connected' = up
    /\ made' = made + 1
    /\ wrapper' = [wrapper EXCEPT !.inner = wrapper.inner + 1]
    /\ ops' = IF up THEN Append(ops, Op("connect", 0, 0, 0))
                    ELSE ops \o <<Op("connect", 0, 0, 0),
                                  Op("sleep", 0, 0, TruncatedExponential(retry + 1, jitter))>>
    /\ pc' = IF ~up THEN pc ELSE IF ret = "init" THEN "fetch" ELSE "until"
    /\ slack' = IF up /\ ret = "init" THEN wrapper.id ELSE slack
    /\ events' = IF up /\ ret = "fetch" THEN <<>> ELSE events
    /\ seen' = seen
    /\ UNCHANGED <<handlers, outcome, until, ret, i, todo, j, polls, runs, calls,
                   typeError, backoff>>

\* CwrAttempt as it would be if it slept before it looked at is_connected.
CwrAttemptSleepFirst(up, jitter) ==
    /\ pc = "cwr_loop"
    /\ retry + 1 \in RetryRange(wrapper.retries)
    /\ retry' = retry + 1
    /\ connected' = up
    /\ ops' = ops \o <<Op("connect", 0, 0, 0),
                        Op("sleep", 0, 0, TruncatedExponential(retry + 1, jitter))>>
    /\ IF up
         THEN CwrReturn
         ELSE UNCHANGED <<handlers, slack, wrapper, pc, outcome, until, ret,
                          events, i, todo, j, polls, made, runs, calls, typeError, backoff, seen>>

\* One iteration of the for loop: connect, and return if that connected,
\* sleep for backoff(retry) if it did not.  Whether rtm_connect connects
\* (up) and the jitter of the backoff are the environment's.
CwrAttempt(up, jitter) ==
    /\ pc = "cwr_loop"
    /\ retry + 1 \in RetryRange(wrapper.retries)
    /\ retry' = retry + 1
    /\ connected' = up
    /\ IF up
         THEN /\ ops' = Append(ops, Op("connect", 0, 0, 0))
              /\ CwrReturn
         ELSE /\ ops' = ops \o <<Op("connect", 0, 0, 0),
                                 Op("sleep", 0, 0, TruncatedExponential(retry + 1, jitter))>>
              /\ UNCHANGED <<handlers, slack, wrapper, pc, outcome, until, ret,
                             events, i, todo, j, polls, made, runs, calls, typeError, backoff, seen>>

\* CwrFail as it would be if connect_with_retry returned when the for loop
\* is exhausted.
CwrFailReturns ==
    /\ pc = "cwr_loop"
    /\ retry + 1 \notin RetryRange(wrapper.retries)
    /\ CwrReturn
    /\ UNCHANGED <<connected, retry, ops>>

\* CwrFail as it would be if the loop of run caught FailedConnection and went
\* on to its next iteration.
CwrFailCaught ==
    /\ pc = "cwr_loop"
    /\ retry + 1 \notin RetryRange(wrapper.retries)
    /\ ret = "fetch"
    /\ pc' = "fetch"
    /\ UNCHANGED <<handlers, slack, wrapper, connected, outcome, until, ret, retry,
                   events, i, todo, j, ops, polls, made, runs, calls, typeError, backoff, seen>>

\* The for loop is exhausted: raise FailedConnection, which nothing in
\* fetch_events, __init__, _ensure_slack or run catches.
CwrFail ==
    /\ pc = "cwr_loop"
    /\ retry + 1 \notin RetryRange(wrapper.retries)
    /\ EndRun("FailedConnection")
    /\ UNCHANGED <<handlers, slack, connected, until, ops, polls, made, runs, calls, typeError, backoff>>

-----------------------------------------------------------------------------
(* _SlackClientWrapper.fetch_events, called at the top of run's loop.      *)

\* FetchEvents as it would be if run handled the events before it asked until.
FetchEventsNoUntil(batch) ==
    /\ pc = "fetch"
    /\ polls < MaxPolls
    /\ polls' = polls + 1
    /\ calls' = <<>>
    /\ ops' = <<Op("read", Len(batch), 0, 0)>>
    /\ events' = batch
    /\ seen' = seen
    /\ i' = 1
    /\ pc' = "events"
    /\ UNCHANGED <<handlers, slack, wrapper, connected, outcome, until, ret, retry,
                   todo, j, made, runs, typeError, backoff>>

\* rtm_read returns a list of events.
FetchEvents(batch) ==
    /\ pc = "fetch"
    /\ polls < MaxPolls
    /\ polls' = polls + 1
    /\ calls' = <<>>
    /\ ops' = <<Op("read", Len(batch), 0, 0)>>
    /\ events' = batch
    /\ seen' = seen
    /\ pc' = "until"
    /\ UNCHANGED <<handlers, slack, wrapper, connected, outcome, until, ret, retry,
                   i, todo, j, made, runs, typeError, backoff>>

\* FetchLost as it would be without the except clause: the exception leaves run.
FetchLostRaised(up) ==
    /\ pc = "fetch"
    /\ polls < MaxPolls
    /\ polls' = polls + 1
    /\ calls' = <<>>
    /\ ops' = <<Op("read_lost", 0, 0, 0)>>
    /\ connected' = up
    /\ EndRun("TimeoutError")
    /\ UNCHANGED <<handlers, slack, until, made, runs, typeError, backoff>>

\* rtm_read raises WebSocketConnectionClosedException or TimeoutError, with
\* the websocket still marked connected (up) or not: connect_with_retry.
FetchLost(up) ==
    /\ pc = "fetch"
    /\ polls < MaxPolls
    /\ polls' = polls + 1
    /\ calls' = <<>>
    /\ ops' = <<Op("read_lost", 0, 0, 0)>>
    /\ connected' = up
    /\ ret' = "fetch"
    /\ pc' = "cwr"
    /\ UNCHANGED <<handlers, slack, wrapper, outcome, until, retry, events,
                   i, todo, j, made, runs, typeError, backoff, seen>>

\* FetchError as it would be if the except clause caught every exception.
FetchErrorCaught ==
    /\ pc = "fetch"
    /\ polls < MaxPolls
    /\ polls' = polls + 1
    /\ calls' = <<>>
    /\ ops' = <<Op("read_error", 0, 0, 0)>>
    /\ ret' = "fetch"
    /\ pc' = "cwr"
    /\ UNCHANGED <<handlers, slack, wrapper, connected, outcome, until, retry, events,
                   i, todo, j, made, runs, typeError, backoff, seen>>

\* rtm_read raises any other exception: it leaves fetch_events and run.
FetchError ==
    /\ pc = "fetch"
    /\ polls < MaxPolls
    /\ polls' = polls + 1
    /\ calls' = <<>>
    /\ ops' = <<Op("read_error", 0, 0, 0)>>
    /\ EndRun("ReadError")
    /\ UNCHANGED <<handlers, slack, connected, until, made, runs, typeError, backoff>>

-----------------------------------------------------------------------------
(* The body of run's loop after fetch_events.                              *)

\* if not until(events): break.  _forever is always True; what a given
\* until answers (go) is the caller's.
Until(go) ==
    /\ pc = "until"
    /\ until = "forever" => go
    /\ ops' = Append(ops, Op("until", Len(events), 0, 0))
    /\ IF go
         THEN /\ pc' = "events"
              /\ i' = 1
              /\ UNCHANGED <<wrapper, outcome, ret, retry, events, todo, j, seen>>
         ELSE EndRun("returned")
    /\ UNCHANGED <<handlers, slack, connected, until, polls, made, runs, calls, typeError, backoff>>

\* NextEvent as it would be if the list of the type were extended in place
\* (handlers = self._handlers[type_]; handlers += self._handlers['*']).
NextEventInPlace ==
    /\ pc = "events"
    /\ i <= Len(events)
    /\ todo' = Lookup(handlers, EventType(events[i]))
    /\ handlers' = [handlers EXCEPT ![EventType(events[i])] =
                        Lookup(handlers, EventType(events[i]))]
    /\ seen' = handlers
    /\ j' = 1
    /\ pc' = "handlers"
    /\ UNCHANGED <<slack, wrapper, connected, outcome, until, ret, retry,
                   events, i, ops, polls, made, runs, calls, typeError, backoff>>

\* for event in events: the next event, its type and its handlers.
NextEvent ==
    /\ pc = "events"
    /\ i <= Len(events)
    /\ todo' = Lookup(handlers, EventType(events[i]))
    /\ seen' = handlers
    /\ j' = 1
    /\ pc' = "handlers"
    /\ UNCHANGED <<handlers, slack, wrapper, connected, outcome, until, ret, retry,
                   events, i, ops, polls, made, runs, calls, typeError, backoff>>

\* SlackInner as it would be if the callbacks were given self._slack, the
\* wrapper, which the model knows by its id.
SlackWrapper == slack

\* self._slack.inner: the SlackClient of the wrapper self._slack refers to.
SlackInner == IF slack = wrapper.id THEN wrapper.inner ELSE NoWrapper.inner

\* What the callback does to the registry while it runs: nothing when reg is
\* NoHandle, else it calls handle(reg.type, **reg.kwargs)(g) for a callback g of
\* two parameters.
Registered(h, reg, g) ==
    IF reg = NoHandle THEN h ELSE Appended(h, reg.type, g, reg.kwargs)

\* Call as it would be if run went through the lists of the registry
\* themselves: what the callback registers for the type of the event or for
\* '*' is still to be called for the event.
CallLiveList(raises, reg, g) ==
    /\ pc = "handlers"
    /\ j <= Len(todo)
    /\ reg # NoHandle => NumRegs(handlers) < MaxRegs
    /\ handlers' = Registered(handlers, reg, g)
    /\ ops' = Append(ops, Op("call", i, todo[j].rid, 0))
    /\ calls' = Append(calls, [slack |-> SlackInner, event |-> events[i],
                               kwargs |-> todo[j].kwargs, raised |-> raises,
                               reg |-> reg])
    /\ IF raises
         THEN EndRun("HandlerError")
         ELSE /\ j' = j + 1
              /\ todo' = IF reg.type \in {EventType(events[i]), "*"}
                           THEN Append(todo, [rid |-> NumRegs(handlers) + 1, fn |-> g,
                                              kwargs |-> reg.kwargs])
                           ELSE todo
              /\ UNCHANGED <<wrapper, pc, outcome, ret, retry, events, i, seen>>
    /\ UNCHANGED <<slack, connected, until, polls, made, runs, typeError, backoff>>

\* Call as it would be with the call of fn in a try that catches Exception.
CallCaught(raises, reg, g) ==
    /\ pc = "handlers"
    /\ j <= Len(todo)
    /\ reg # NoHandle => NumRegs(handlers) < MaxRegs
    /\ handlers' = Registered(handlers, reg, g)
    /\ ops' = Append(ops, Op("call", i, todo[j].rid, 0))
    /\ calls' = Append(calls, [slack |-> SlackInner, event |-> events[i],
                               kwargs |-> todo[j].kwargs, raised |-> raises,
                               reg |-> reg])
    /\ j' = j + 1
    /\ UNCHANGED <<slack, wrapper, connected, pc, outcome, until, ret,
                   retry, events, i, todo, polls, made, runs, typeError, backoff, seen>>

\* for handler in ...: fn(self._slack.inner, event, **kwargs).  What fn does
\* is the callback's: it may register a callback g (reg), and it returns or
\* raises; run catches nothing, so what fn raises leaves run.
Call(raises, reg, g) ==
    /\ pc = "handlers"
    /\ j <= Len(todo)
    /\ reg # NoHandle => NumRegs(handlers) < MaxRegs
    /\ handlers' = Registered(handlers, reg, g)
    /\ ops' = Append(ops, Op("call", i, todo[j].rid, 0))
    /\ calls' = Append(calls, [slack |-> SlackInner, event |-> events[i],
                               kwargs |-> todo[j].kwargs, raised |-> raises,
                               reg |-> reg])
    /\ IF raises
         THEN EndRun("HandlerError")
         ELSE /\ j' = j + 1
              /\ UNCHANGED <<wrapper, pc, outcome, ret, retry, events, i, todo, seen>>
    /\ UNCHANGED <<slack, connected, until, polls, made, runs, typeError, backoff>>

\* The handlers of the event are done: on to the next event.
EndEvent ==
    /\ pc = "handlers"
    /\ j > Len(todo)
    /\ i' = i + 1
    /\ pc' = "events"
    /\ UNCHANGED <<handlers, slack, wrapper, connected, outcome, until, ret, retry,
                   events, todo, j, ops, polls, made, runs, calls, typeError, backoff, seen>>

\* Sleep as it would be if run slept only when there were events.
SleepIfEvents ==
    /\ pc = "events"
    /\ i > Len(events)
    /\ ops' = IF events = <<>> THEN ops ELSE Append(ops, Op("interval", 0, 0, IntervalMs))
    /\ pc' = "fetch"
    /\ UNCHANGED <<handlers, slack, wrapper, connected, outcome, until, ret, retry,
                   events, i, todo, j, polls, made, runs, calls, typeError, backoff, seen>>

\* Sleep as it would be with a return at the end of the loop's body.
SleepReturns ==
    /\ pc = "events"
    /\ i > Len(events)
    /\ ops' = Append(ops, Op("interval", 0, 0, IntervalMs))
    /\ EndRun("returned")
    /\ UNCHANGED <<handlers, slack, connected, until, polls, made, runs, calls,
                   typeError, backoff>>

\* The events are done: time.sleep(interval), and back to the top of the loop.
Sleep ==
    /\ pc = "events"
    /\ i > Len(events)
    /\ ops' = Append(ops, Op("interval", 0, 0, IntervalMs))
    /\ pc' = "fetch"
    /\ UNCHANGED <<handlers, slack, wrapper, connected, outcome, until, ret, retry,
                   events, i, todo, j, polls, made, runs, calls, typeError, backoff, seen>>

-----------------------------------------------------------------------------
Next ==
    \/ \E h \in Handles, fn \in Callbacks, sig \in Accepted :
            Register(h.type, fn, h.kwargs, sig)
    \/ \E connector \in Connectors :
            \E env \in EnvRead(connector), isUp \in UpRead(connector) :
                \E retries \in RetriesRead(connector, env),
                   untilArg \in UntilRead(connector, env) :
                    RunCall(connector, env, retries, untilArg, isUp)
    \/ CwrEnter
    \/ \E up \in BOOLEAN, jitter \in Jitters : CwrAttempt(up, jitter)
    \/ CwrFail
    \/ \E batch \in Batches : FetchEvents(batch)
    \/ \E up \in BOOLEAN : FetchLost(up)
    \/ FetchError
    \/ \E go \in BOOLEAN : Until(go)
    \/ NextEvent
    \/ \E raises \in BOOLEAN, reg \in {NoHandle} \cup Handles, g \in Callbacks :
            Call(raises, reg, g)
    \/ EndEvent
    \/ Sleep

Spec == Init /\ [][Next]_vars

\* The steps of run itself, which a call of run goes on taking until it
\* returns or raises: the interpreter runs the loop, and rtm_connect,
\* rtm_read, until and the callbacks are taken to come back.
RunStep ==
    \/ CwrEnter
    \/ \E up \in BOOLEAN, jitter \in Jitters : CwrAttempt(up, jitter)
    \/ CwrFail
    \/ \E batch \in Batches : FetchEvents(batch)
    \/ \E up \in BOOLEAN : FetchLost(up)
    \/ FetchError
    \/ \E go \in BOOLEAN : Until(go)
    \/ NextEvent
    \/ \E raises \in BOOLEAN, reg \in {NoHandle} \cup Handles, g \in Callbacks :
            Call(raises, reg, g)
    \/ EndEvent
    \/ Sleep

\* Calls of run on a Layabout with two handlers, one for 'hello' and one for
\* '*' with spam='eggs', with the steps of run taken as long as there is one.
InitLive ==
    /\ handlers = Appended(Appended([t \in Types |-> <<>>], "hello", "f", NoKwargs),
                           "*", "f", Spam)
    /\ slack = 0
    /\ wrapper = NoWrapper
    /\ connected = FALSE
    /\ pc = "idle"
    /\ outcome = "none"
    /\ until = "forever"
    /\ ret = "init"
    /\ retry = 0
    /\ events = <<>>
    /\ i = 0
    /\ todo = <<>>
    /\ j = 0
    /\ ops = <<>>
    /\ polls = 0
    /\ made = 0
    /\ runs = 0
    /\ calls = <<>>
    /\ typeError = NoError
    /\ backoff = NoBackoff
    /\ seen = [t \in Types |-> <<>>]

NextLive ==
    \/ \E connector \in Connectors :
            \E env \in EnvRead(connector), isUp \in UpRead(connector) :
                \E retries \in RetriesRead(connector, env),
                   untilArg \in UntilRead(connector, env) :
                    RunCall(connector, env, retries, untilArg, isUp)
    \/ RunStep

SpecLive == InitLive /\ [][NextLive]_vars /\ WF_vars(RunStep)

-----------------------------------------------------------------------------
(* Calls of handle alone, with every signature: those handle rejects as    *)
(* well as those it accepts, for every type and keyword arguments.         *)

NextHandle ==
    \E type \in RegTypes, fn \in Callbacks, kwargs \in Kwargs, sig \in Signatures :
        Register(type, fn, kwargs, sig)

SpecHandle == Init /\ [][NextHandle]_vars

-----------------------------------------------------------------------------
(* Direct calls of _truncated_exponential, as the tests make them: the     *)
(* argument and the value of random.randrange are drawn at the start.      *)

InitBackoff ==
    /\ handlers = [t \in Types |-> <<>>]
    /\ slack = 0
    /\ wrapper = NoWrapper
    /\ connected = FALSE
    /\ pc = "idle"
    /\ outcome = "none"
    /\ until = "forever"
    /\ ret = "init"
    /\ retry = 0
    /\ events = <<>>
    /\ i = 0
    /\ todo = <<>>
    /\ j = 0
    /\ ops = <<>>
    /\ polls = 0
    /\ made = 0
    /\ runs = 0
    /\ calls = <<>>
    /\ typeError = NoError
    /\ seen = [t \in Types |-> <<>>]
    /\ backoff \in [retry : 0..MaxBackoffRetry, jitter : 0..(JitterRange - 1), ms : {-1}]

TruncatedExponentialCall ==
    /\ backoff.ms = -1
    /\ backoff' = [backoff EXCEPT !.ms = TruncatedExponential(backoff.retry, backoff.jitter)]
    /\ UNCHANGED <<handlers, slack, wrapper, connected, pc, outcome, until, ret, retry,
                   events, i, todo, j, ops, polls, made, runs, calls, typeError, seen>>

NextBackoff == TruncatedExponentialCall

SpecBackoff == InitBackoff /\ [][NextBackoff]_vars

-----------------------------------------------------------------------------
(* Properties.                                                             *)

\* The calls of handlers made for event number e of the current list.
CallsFor(e) == SelectSeq(ops, LAMBDA o : o.op = "call" /\ o.ev = e)

\* How often the registration rid was called for event number e.
TimesCalled(e, rid) == Len(SelectSeq(CallsFor(e), LAMBDA o : o.rid = rid))

\* The handlers of event number i have all been called.
EventDone == pc = "handlers" /\ j > Len(todo)

\* C1: for every event run dispatches, each registration for the type of the
\* event and each registration for '*' (of those made when the handlers of
\* the event were looked up) is called exactly once, and no other
\* registration is called; also for an event whose type is '*'.
C1_ExactlyOncePerEvent ==
    EventDone =>
        /\ \A t \in Types : \A k \in 1..Len(seen[t]) :
               TimesCalled(i, seen[t][k].rid) =
                   IF t \in {EventType(events[i]), "*"} THEN 1 ELSE 0
        /\ \A q \in 1..Len(CallsFor(i)) :
               \E r \in RegsOf(seen) : r.rid = CallsFor(i)[q].rid

\* C2: of two registrations for the same type, the one registered first (the
\* smaller rid) is called first: every call of the later one for an event
\* comes after a call of the earlier one for that event, in every cycle, and
\* once the event is done both have been called if the type matches and
\* both were registered when its handlers were looked up.
C2_RegistrationOrder ==
    \A t \in Types : \A k1, k2 \in 1..Len(handlers[t]) :
        handlers[t][k1].rid < handlers[t][k2].rid =>
            /\ \A q \in 1..Len(ops) :
                   (ops[q].op = "call" /\ ops[q].rid = handlers[t][k2].rid) =>
                       \E p \in 1..(q - 1) :
                           ops[p] = Op("call", ops[q].ev, handlers[t][k1].rid, 0)
            /\ (EventDone /\ t \in {EventType(events[i]), "*"}
                          /\ k1 <= Len(seen[t]) /\ k2 <= Len(seen[t])) =>
                   /\ TimesCalled(i, handlers[t][k1].rid) > 0
                   /\ TimesCalled(i, handlers[t][k2].rid) > 0

\* Two handlers registered for 'hello' have both been called for a 'hello' event.
C2_Witness ==
    /\ EventDone
    /\ events[i] = Hello
    /\ Len(handlers["hello"]) = 2
    /\ Len(CallsFor(i)) = 2

\* The values backoff(r) takes, in milliseconds.
BackoffValues(r) == { TruncatedExponential(r, jitter) : jitter \in Jitters }

Connects == CountOps(ops, "connect")
Sleeps == SelectOps(ops, "sleep")

\* connect_with_retry has made its calls of rtm_connect and none connected.
\* (ops holds the calls of at most one call of connect_with_retry: it is called
\* once before the first rtm_read and at most once after each.)
AllFailed == pc = "cwr_loop"

\* C3: connect_with_retry on a disconnected wrapper with retries = N, when no
\* rtm_connect connects: it never makes more than N calls of rtm_connect, it
\* does not return, and it raises FailedConnection after exactly N calls.
C3_ExactlyNConnects ==
    /\ [](AllFailed => /\ ~connected
                       /\ Connects = retry
                       /\ Connects <= wrapper.retries)
    /\ [][(AllFailed /\ ~connected') =>
             IF Connects < wrapper.retries
               THEN pc' = "cwr_loop" /\ outcome' = "none"
               ELSE /\ pc' = "idle"
                    /\ outcome' = "FailedConnection"
                    /\ ops' = ops
                    /\ Connects = wrapper.retries]_vars
    /\ [][(outcome = "none" /\ outcome' = "FailedConnection") =>
             AllFailed /\ Connects = wrapper.retries]_vars

\* FailedConnection after MaxRetries calls of rtm_connect.
C3_Witness == outcome = "FailedConnection" /\ Connects = MaxRetries

\* C4: with retries = N and no rtm_connect connecting, the sleeps are
\* backoff(1), ..., backoff(N-1), one between two consecutive calls of
\* rtm_connect: every sleep is followed by another call of rtm_connect.
C4_SleepsBetweenAttempts ==
    outcome = "FailedConnection" =>
        /\ Len(Sleeps) = (IF Connects = 0 THEN 0 ELSE Connects - 1)
        /\ \A k \in 1..Len(Sleeps) : Sleeps[k].ms \in BackoffValues(k)
        /\ \A q \in 1..Len(ops) :
               ops[q].op = "sleep" => (q < Len(ops) /\ ops[q + 1].op = "connect")

\* C5: connect_with_retry on a connected wrapper, whatever retries is: no
\* rtm_connect, no sleep, the wrapper and the connection are as they were, and
\* it returns (to __init__, and run goes on to fetch, or to fetch_events, and
\* run goes on to until); so a second call in a row does as the first.
C5_NoOpWhenConnected ==
    [][(pc = "cwr" /\ connected) =>
          /\ ops' = Append(ops, Op("cwr", 0, 0, 0))
          /\ connected'
          /\ wrapper' = wrapper
          /\ retry' = retry
          /\ outcome' = "none"
          /\ pc' = (IF ret = "init" THEN "fetch" ELSE "until")]_vars

\* With retries = 0, connect_with_retry has returned twice in a row on a
\* connected wrapper: from __init__, and from the fetch_events of the first
\* rtm_read, which raised and left the websocket connected.
C5_Witness ==
    /\ pc = "until"
    /\ wrapper.retries = 0
    /\ polls = 1
    /\ ops = <<Op("read_lost", 0, 0, 0), Op("cwr", 0, 0, 0)>>

\* The last rtm_read raised the timeout or the connection-closed exception.
Lost == ops # <<>> /\ ops[1].op = "read_lost"

\* run is in its loop.
InLoop == pc \in {"until", "events", "handlers", "fetch"}

\* C6: when rtm_read raises the transient exception, fetch_events does not let
\* it out: it calls connect_with_retry; if that returns, fetch_events returns
\* [], so until is asked about [] and no handler is called in the cycle, which
\* ends in the interval sleep and the next fetch; if it does not, what leaves
\* run is FailedConnection.
C6_TransientRecovered ==
    /\ [][(Len(ops') = 1 /\ ops' # ops /\ ops'[1].op = "read_lost") =>
             /\ outcome' = "none"
             /\ pc' = "cwr"
             /\ ret' = "fetch"]_vars
    /\ [](Lost =>
            /\ Len(ops) > 1 => ops[2].op = "cwr"
            /\ CountOps(ops, "call") = 0
            /\ InLoop => (connected /\ events = <<>> /\ pc # "handlers")
            /\ \A q \in 1..Len(ops) : ops[q].op = "until" => ops[q].ev = 0
            /\ pc = "idle" => outcome \in {"FailedConnection", "returned"}
            /\ outcome = "FailedConnection" => ~connected)

\* After a rtm_read that raised, connect_with_retry reconnected at its second
\* rtm_connect, until was asked and the cycle ended in the interval sleep.
C6_Witness ==
    /\ Lost
    /\ pc = "fetch"
    /\ Connects = 2
    /\ ops[Len(ops)].op = "interval"

\* C7, as claimed: in a run whose rtm_read raises the transient exception once
\* and that goes on to the next rtm_read, exactly one rtm_connect was made
\* because of it.
C7_ExactlyOneConnect == (Lost /\ pc = "fetch") => Connects = 1

\* C7, amended: the run goes on without raising, and connect_with_retry was
\* called exactly once because of the exception; it made between 0 and retries
\* calls of rtm_connect (none when the websocket is still marked connected),
\* of which only the last connected.
C7_OneReconnection ==
    (Lost /\ pc = "fetch") =>
        /\ outcome = "none"
        /\ connected
        /\ CountOps(ops, "cwr") = 1
        /\ Connects \in 0..wrapper.retries
        /\ Len(Sleeps) = (IF Connects = 0 THEN 0 ELSE Connects - 1)

\* A cycle whose rtm_read raised went on after two calls of rtm_connect.
C7_Witness == Lost /\ pc = "fetch" /\ Connects = 2 /\ wrapper.retries = 2

\* C8: FailedConnection ends the run call, at the first connection as after a
\* rtm_read: when the retries are exhausted it leaves run, and after it there
\* is no rtm_connect, rtm_read, until, handler call or sleep (ops and polls
\* stay as they are) unless the caller calls run again.
C8_FailedConnectionFatal ==
    /\ [][(pc = "cwr_loop" /\ retry >= wrapper.retries) =>
             (pc' = "idle" /\ outcome' = "FailedConnection")]_vars
    /\ [][outcome = "FailedConnection" =>
             \/ (pc' = "idle" /\ ops' = ops /\ polls' = polls /\ runs' = runs
                   /\ connected' = connected /\ outcome' = outcome)
             \/ runs' = runs + 1]_vars

\* FailedConnection after a rtm_read that raised.
C8_Witness == outcome = "FailedConnection" /\ Lost /\ Connects = MaxRetries

\* C9: in a cycle, until is asked once, about the list that rtm_read returned,
\* before any handler call or interval sleep; when it answers false, run
\* returns, and the cycle has no handler call and no interval sleep, and no
\* rtm_read follows.
C9_UntilBeforeDispatch ==
    /\ [](/\ CountOps(ops, "until") <= 1
          /\ \A q \in 1..Len(ops) :
                /\ ops[q].op \in {"call", "interval"} =>
                      \E p \in 1..(q - 1) : ops[p].op = "until"
                /\ ops[q].op = "until" =>
                      ops[q].ev = (IF ops[1].op = "read" THEN ops[1].ev ELSE 0)
          /\ pc \in {"events", "handlers"} => CountOps(ops, "until") = 1
          /\ outcome = "returned" =>
                /\ pc = "idle"
                /\ ops[Len(ops)].op = "until"
                /\ CountOps(ops, "call") = 0
                /\ CountOps(ops, "interval") = 0)
    /\ [][(pc = "until" /\ pc' # "events") =>
             (pc' = "idle" /\ outcome' = "returned")]_vars
    /\ [][outcome = "returned" =>
             \/ (ops' = ops /\ polls' = polls /\ pc' = "idle")
             \/ runs' = runs + 1]_vars

\* run returned on a list of two events, the first with a handler registered.
C9_Witness ==
    /\ outcome = "returned"
    /\ ops = <<Op("read", 2, 0, 0), Op("until", 2, 0, 0)>>
    /\ Len(handlers["hello"]) > 0

\* The events of the calls of the registration rid, in the order of the calls.
EventsOf(rid) == SelectSeq(ops, LAMBDA o : o.op = "call" /\ o.rid = rid)

\* C10: the events are handled in the order of the list: the calls for event
\* i come before those for event i+1, all calls for the list are made before
\* the next rtm_read, and a '*' handler is called once per event, in the order
\* of the events.
C10_EventOrder ==
    /\ \A p, q \in 1..Len(ops) :
           (p < q /\ ops[p].op = "call" /\ ops[q].op = "call") => ops[p].ev <= ops[q].ev
    /\ (pc = "fetch" /\ polls > 0 /\ ~Lost
           /\ \A k \in 1..Len(calls) : calls[k].reg = NoHandle) =>
           /\ \A e \in 1..Len(events) :
                  Len(CallsFor(e)) = Len(Lookup(handlers, EventType(events[e])))
           /\ \A k \in 1..Len(handlers["*"]) :
                  /\ Len(EventsOf(handlers["*"][k].rid)) = Len(events)
                  /\ \A e \in 1..Len(events) : EventsOf(handlers["*"][k].rid)[e].ev = e

\* The steps after run has ended in how: nothing of the run goes on, unless
\* the caller calls run again.
Over(how) ==
    outcome = how =>
        \/ /\ pc' = "idle"
           /\ outcome' = outcome
           /\ ops' = ops
           /\ calls' = calls
           /\ polls' = polls
           /\ made' = made
           /\ connected' = connected
        \/ runs' = runs + 1

\* C11: what a handler raises is not caught: it leaves run, and the handlers
\* left for the event, the events left in the list and all later rtm_reads
\* are not executed.
C11_HandlerErrorPropagates ==
    /\ [](\A k \in 1..Len(calls) :
             calls[k].raised =>
                 /\ k = Len(calls)
                 /\ pc = "idle"
                 /\ outcome = "HandlerError"
                 /\ ops[Len(ops)].op = "call")
    /\ [](outcome = "HandlerError" => (calls # <<>> /\ calls[Len(calls)].raised))
    /\ [][Over("HandlerError")]_vars

\* The first of two 'hello' handlers raised for the first of two events.
C11_Witness ==
    /\ outcome = "HandlerError"
    /\ Len(handlers["hello"]) = 2
    /\ ops = <<Op("read", 2, 0, 0), Op("until", 2, 0, 0), Op("call", 1, 1, 0)>>

\* How many positional arguments a callback of signature sig accepts, up to 2.
Positional(sig) ==
    IF \E k \in 1..Len(sig) : sig[k] = "var_positional"
      THEN 2
      ELSE Min(2, Len(SelectSeq(sig, LAMBDA kind : kind = "positional")))

\* C12: registering a callback that accepts fewer than two positional
\* arguments raises (2 missing for none, 1 missing, 'event', for one) and
\* leaves the registry as it is; registering one that accepts two or more
\* appends one entry to the list of the type and leaves the other lists.
C12_RegisterValidates ==
    [][\A type \in RegTypes, fn \in Callbacks, kwargs \in Kwargs, sig \in Signatures :
          Register(type, fn, kwargs, sig) =>
              IF Positional(sig) < 2
                THEN /\ handlers' = handlers
                     /\ typeError'.missing = 2 - Positional(sig)
                     /\ Positional(sig) = 1 => typeError'.arguments = "'event'"
                ELSE /\ typeError' = NoError
                     /\ Len(handlers'[type]) = Len(handlers[type]) + 1
                     /\ SubSeq(handlers'[type], 1, Len(handlers[type])) = handlers[type]
                     /\ handlers'[type][Len(handlers'[type])].fn = fn
                     /\ \A t \in Types \ {type} : handlers'[t] = handlers[t]]_vars

\* What the claim C13 expects of run for a connector and the environment.
Resolution(connector, env) ==
    IF connector.kind = "str" /\ connector.value = "" THEN "MissingSlackToken"
    ELSE IF connector.kind \in {"None", "EnvVar"} /\ env \in {None, ""}
           THEN "MissingSlackToken"
    ELSE IF connector.kind \notin {"None", "EnvVar", "str", "SlackClient"}
           THEN "TypeError"
    ELSE "ok"

\* C13: run with an empty token or with an unset or empty environment
\* variable (the default one when there is no connector) raises
\* MissingSlackToken, run with an unsupported connector raises TypeError, at
\* once: no SlackClient is constructed, there is no rtm_connect, rtm_read,
\* until or handler call, and nothing is retried.
C13_ResolutionFailures ==
    /\ [][runs' = runs + 1 =>
            \A connector \in Connectors, env \in EnvValues, retries \in 0..MaxRetries,
               untilArg \in {"forever", "custom"}, isUp \in BOOLEAN :
                (RunCall(connector, env, retries, untilArg, isUp)
                     /\ Resolution(connector, env) # "ok") =>
                   /\ outcome' = Resolution(connector, env)
                   /\ pc' = "idle"
                   /\ made' = 0
                   /\ polls' = 0
                   /\ ops' = <<>>
                   /\ calls' = <<>>
                   /\ wrapper' = NoWrapper
                   /\ slack' = slack
                   /\ connected' = connected]_vars
    /\ [][Over("MissingSlackToken")]_vars
    /\ [][Over("TypeError")]_vars

\* run raised MissingSlackToken.
C13_Witness == outcome = "MissingSlackToken" /\ runs = 1 /\ pc = "idle"

\* C14: run with an existing SlackClient makes no SlackClient: the wrapper
\* holds the caller's client as it is given, the handlers are called with that
\* client, and if it is connected there is no rtm_connect before the first
\* rtm_read.
C14_ExistingClientUsed ==
    /\ [][runs' = runs + 1 =>
            \A connector \in Connectors, env \in EnvValues, retries \in 0..MaxRetries,
               untilArg \in {"forever", "custom"}, isUp \in BOOLEAN :
                (RunCall(connector, env, retries, untilArg, isUp)
                     /\ connector.kind = "SlackClient") =>
                   /\ wrapper'.inner = 0
                   /\ made' = 0
                   /\ connected' = isUp
                   /\ pc' = "cwr"
                   /\ ops' = <<>>]_vars
    /\ [](wrapper.inner = 0 =>
             /\ made = 0
             /\ \A k \in 1..Len(calls) : calls[k].slack = 0)
    /\ [][(pc = "cwr" /\ ret = "init" /\ wrapper.inner = 0 /\ connected) =>
             /\ pc' = "fetch"
             /\ slack' = wrapper.id
             /\ connected'
             /\ CountOps(ops', "connect") = 0]_vars
    /\ [][(pc # "idle" /\ pc' # "idle" /\ wrapper.inner = 0) => wrapper'.inner = 0]_vars

\* A handler has been called with the caller's client, and no client was made.
C14_Witness ==
    /\ wrapper.inner = 0
    /\ made = 0
    /\ polls = 1
    /\ calls # <<>>
    /\ calls[1].slack = 0

\* C15: a run makes one wrapper, and at most one SlackClient (one for a
\* token, none for a client of the caller's), when it starts; however many
\* calls of rtm_connect and rtm_read follow, in connect_with_retry at the
\* start or after a lost connection, the wrapper and its client stay the
\* same, and the handlers are called with that client.
C15_OneClientPerRun ==
    /\ [](pc # "idle" =>
             /\ wrapper.id = runs
             /\ made = IF wrapper.inner = 0 THEN 0 ELSE 1
             /\ wrapper.inner \in {0, runs})
    /\ [](made <= 1)
    /\ [][pc # "idle" => made' = made]_vars
    /\ [][(pc # "idle" /\ pc' # "idle") => wrapper' = wrapper]_vars
    /\ []((pc # "idle" /\ polls > 0) => slack = wrapper.id)
    /\ [](pc # "idle" => \A k \in 1..Len(calls) : calls[k].slack = wrapper.inner)
    /\ [](\A k1, k2 \in 1..Len(calls) : calls[k1].slack = calls[k2].slack)

\* A run with a token, in its second rtm_connect after a lost connection.
C15_Witness ==
    /\ ops # <<>>
    /\ ops[1].op = "read_lost"
    /\ CountOps(ops, "connect") = 2
    /\ pc = "until"
    /\ made = 1
    /\ wrapper.inner = 1

\* C16: _truncated_exponential(retry), in milliseconds, for every value of
\* random.randrange(1000): never more than 64000, 64000 for retry >= 16, and 1
\* for retry 0 when randrange gives 0.
C16_BackoffValue ==
    backoff.ms >= 0 =>
        /\ backoff.ms <= 64000
        /\ backoff.ms >= 1
        /\ backoff.retry >= 16 => backoff.ms = 64000
        /\ (backoff.retry = 0 /\ backoff.jitter = 0) => backoff.ms = 1

\* _truncated_exponential(16) has returned, with the largest jitter.
C16_Witness ==
    /\ backoff.retry = 16
    /\ backoff.jitter = 999
    /\ backoff.ms = 64000

\* Where the current call of connect_with_retry starts in ops: it is the first
\* thing of a run and the first thing after an rtm_read that lost the connection.
CwrStart == IF Lost THEN 2 ELSE 1

\* C17: when the k-th rtm_connect of connect_with_retry is the first to
\* connect, connect_with_retry returns (to __init__ or to fetch_events) and
\* raises nothing; it has made k calls of rtm_connect, k <= retries, with a
\* sleep of backoff(m) after the m-th for m < k and nothing after the k-th;
\* and no rtm_connect or sleep follows outside connect_with_retry.
C17_FirstSuccessReturns ==
    /\ [][(pc = "cwr_loop" /\ connected') =>
             /\ pc' = (IF ret = "init" THEN "fetch" ELSE "until")
             /\ outcome' = "none"
             /\ retry' \in 1..wrapper.retries
             /\ CountOps(ops', "connect") = retry'
             /\ Len(SelectOps(ops', "sleep")) = retry' - 1
             /\ Len(ops') = CwrStart + (2 * retry') - 1
             /\ \A m \in 1..((2 * retry') - 1) :
                    IF m % 2 = 1
                      THEN ops'[CwrStart + m].op = "connect"
                      ELSE /\ ops'[CwrStart + m].op = "sleep"
                           /\ ops'[CwrStart + m].ms \in BackoffValues(m \div 2)]_vars
    /\ [][pc \notin {"cwr", "cwr_loop"} =>
             /\ CountOps(ops', "connect") <= Connects
             /\ Len(SelectOps(ops', "sleep")) <= Len(Sleeps)]_vars

\* The second rtm_connect of a run connected: one sleep, then on to rtm_read.
C17_Witness ==
    /\ pc = "fetch"
    /\ polls = 0
    /\ connected
    /\ Connects = 2
    /\ Len(Sleeps) = 1
    /\ ops[Len(ops)].op = "connect"

\* C18: rtm_read is called only after connect_with_retry has returned with
\* the client connected: __init__ calls connect_with_retry before the first
\* rtm_read, fetch_events calls it after a lost connection before the next,
\* and when the first connect_with_retry raises FailedConnection the run ends
\* with no rtm_read and no handler call.
C18_NoPollUnlessConnected ==
    /\ [](pc = "fetch" =>
             /\ connected
             /\ slack = wrapper.id
             /\ outcome = "none"
             /\ polls = 0 => (ops # <<>> /\ ops[1].op = "cwr"))
    /\ [][polls' = polls + 1 => pc = "fetch"]_vars
    /\ [][(pc # "fetch" /\ pc' = "fetch") =>
             \/ pc \in {"cwr", "cwr_loop"} /\ ret = "init" /\ connected'
             \/ pc = "events"]_vars
    /\ [][(pc \in {"cwr", "cwr_loop"} /\ pc' \notin {"cwr", "cwr_loop", "idle"}) =>
             connected']_vars
    /\ []((outcome = "FailedConnection" /\ ~Lost) =>
             /\ pc = "idle"
             /\ polls = 0
             /\ calls = <<>>
             /\ CountOps(ops, "read") + CountOps(ops, "call") = 0)
    /\ [][outcome' = "FailedConnection" => slack' = slack]_vars
    /\ [][Over("FailedConnection")]_vars

\* The first connect_with_retry of a run made two calls of rtm_connect and
\* raised FailedConnection, with a handler registered.
C18_Witness ==
    /\ outcome = "FailedConnection"
    /\ ops # <<>>
    /\ ops[1].op = "cwr"
    /\ Connects = 2
    /\ polls = 0
    /\ NumRegs(handlers) > 0

\* C19: when rtm_read raises something other than the two exceptions
\* fetch_events catches, the exception leaves run: it is the last thing of the
\* run, with no connect_with_retry, rtm_connect, sleep, until or handler call
\* after it.
C19_ReadErrorPropagates ==
    /\ []((ops # <<>> /\ ops[1].op = "read_error") =>
             /\ ops = <<Op("read_error", 0, 0, 0)>>
             /\ calls = <<>>
             /\ pc = "idle"
             /\ outcome = "ReadError")
    /\ [](outcome = "ReadError" => (ops # <<>> /\ ops[1].op = "read_error"))
    /\ [][outcome' = "ReadError" => (connected' = connected /\ slack' = slack)]_vars
    /\ [][Over("ReadError")]_vars

\* The second rtm_read of a run raised, with a handler registered.
C19_Witness ==
    /\ outcome = "ReadError"
    /\ polls = 2
    /\ NumRegs(handlers) > 0

\* The rids of the registrations in a list of handlers.
Rids(regs) == [k \in 1..Len(regs) |-> regs[k].rid]

\* C20: the handlers called for an event are those registered for its type
\* when its handlers were looked up (seen),
\* in the order of their registration, and then those registered for '*', in
\* the order of theirs, whichever were registered first; so for an event
\* whose type is not '*' every call of the first kind comes before every call
\* of the second.
C20_TypeBeforeWildcard ==
    /\ EventDone =>
           Rids(CallsFor(i)) = Rids(seen[EventType(events[i])]) \o Rids(seen["*"])
    /\ (pc = "handlers" /\ EventType(events[i]) # "*") =>
           \A p, q \in 1..Len(CallsFor(i)) :
               (/\ \E k \in 1..Len(handlers["*"]) :
                       handlers["*"][k].rid = CallsFor(i)[p].rid
                /\ \E k \in 1..Len(handlers[EventType(events[i])]) :
                       handlers[EventType(events[i])][k].rid = CallsFor(i)[q].rid)
                   => q < p

\* '*' was registered before 'hello'; for a 'hello' event the handler of
\* 'hello' was called first.
C20_Witness ==
    /\ EventDone
    /\ events[i] = Hello
    /\ Len(handlers["*"]) = 1
    /\ Len(handlers["hello"]) = 1
    /\ handlers["*"][1].rid < handlers["hello"][1].rid
    /\ Rids(CallsFor(i)) = <<handlers["hello"][1].rid, handlers["*"][1].rid>>

\* The exceptions that leave run.
Errors == {"MissingSlackToken", "TypeError", "FailedConnection", "ReadError",
           "HandlerError"}

\* C21: run returns only from the call of until, when until is given and
\* answers false for the list just read; every other end of run is one of the
\* exceptions.  With until absent run does not return: after the sleep of a
\* cycle it is at the next rtm_read, from there its next step is that rtm_read,
\* and from everywhere else in the run it comes to the next rtm_read unless
\* an exception ends it.
C21_ReturnsOnlyByUntil ==
    /\ [](outcome = "returned" =>
             /\ pc = "idle"
             /\ until = "custom"
             /\ ops # <<>>
             /\ ops[Len(ops)].op = "until"
             /\ CountOps(ops, "call") + CountOps(ops, "interval") = 0)
    /\ []((pc = "idle" /\ runs > 0) => outcome \in Errors \cup {"returned"})
    /\ [](pc # "idle" => outcome = "none")
    /\ [][outcome' = "returned" => (pc = "until" \/ outcome = "returned")]_vars
    /\ [](until = "forever" => outcome # "returned")
    /\ [][(pc = "events" /\ i > Len(events)) => pc' = "fetch"]_vars
    /\ [][pc = "fetch" => polls' = polls + 1]_vars
    /\ (until = "forever" /\ pc \notin {"idle", "fetch"})
           ~> (pc = "fetch" \/ outcome \in Errors)

\* A run without until has made its last rtm_read of the model and, after
\* the sleep, is at the next.
C21_Witness ==
    /\ until = "forever"
    /\ pc = "fetch"
    /\ polls = MaxPolls
    /\ ops # <<>>
    /\ ops[Len(ops)].op = "interval"

\* A callback called handle in the step: the call just added to calls registered.
CallRegisters ==
    /\ pc = "handlers"
    /\ Len(calls') = Len(calls) + 1
    /\ calls'[Len(calls')].reg # NoHandle

\* C22: every step leaves each list of the registry as it is or appends to it;
\* the registry changes only in a call of handle, by one registration, made
\* by the caller outside run or by a callback; the steps of run itself
\* (_ensure_slack, connect_with_retry, fetch_events, until, the lookup, the
\* sleep) leave it as it is.
C22_RegistryAppendOnly ==
    /\ [][\A t \in Types :
             /\ Len(handlers[t]) <= Len(handlers'[t])
             /\ SubSeq(handlers'[t], 1, Len(handlers[t])) = handlers[t]]_vars
    /\ [][handlers' # handlers =>
             /\ NumRegs(handlers') = NumRegs(handlers) + 1
             /\ \/ pc = "idle" /\ pc' = "idle" /\ runs' = runs
                \/ CallRegisters]_vars
    /\ [][(pc # "idle" /\ ~CallRegisters) => handlers' = handlers]_vars
    /\ [][runs' = runs + 1 => handlers' = handlers]_vars
    /\ [](\A t \in Types : \A k1, k2 \in 1..Len(handlers[t]) :
             k1 < k2 => handlers[t][k1].rid < handlers[t][k2].rid)

\* A run has handled the events of two rtm_reads with the two registrations
\* made before it.
C22_Witness ==
    /\ pc = "fetch"
    /\ polls = 2
    /\ Len(SelectSeq(calls, LAMBDA c : c.reg = NoHandle)) = Len(calls)
    /\ Len(calls) >= 2
    /\ NumRegs(handlers) = 2
    /\ Len(handlers["hello"]) = 1
    /\ Len(handlers["*"]) = 1

\* The registration numbered rid.
RegOf(rid) == CHOOSE r \in RegsOf(handlers) : r.rid = rid

\* C23: every call of a callback is made with the SlackClient inside the
\* wrapper of the run (not the wrapper), with the event being handled, and
\* with the keyword arguments given to handle for that registration, none if
\* none were given.
C23_CallArguments ==
    /\ Len(calls) = CountOps(ops, "call")
    /\ \A k \in 1..Len(calls) :
           /\ \E r \in RegsOf(handlers) : r.rid = SelectOps(ops, "call")[k].rid
           /\ calls[k].kwargs = RegOf(SelectOps(ops, "call")[k].rid).kwargs
           /\ calls[k].kwargs \in Kwargs
           /\ pc # "idle" =>
                  /\ calls[k].slack = wrapper.inner
                  /\ calls[k].slack \in {0, runs}
                  /\ wrapper.inner = 0 => calls[k].slack # wrapper.id
                  /\ calls[k].event = events[SelectOps(ops, "call")[k].ev]
    /\ pc = "handlers" =>
           \A k \in 1..Len(todo) : todo[k].kwargs = RegOf(todo[k].rid).kwargs

\* In a run with the caller's SlackClient, the handler of 'hello' was called
\* with no keyword arguments and the handler of '*' with spam='eggs', both
\* with that client and the 'hello' event.
C23_Witness ==
    /\ pc = "handlers"
    /\ wrapper.inner = 0
    /\ Len(calls) = 2
    /\ calls[1] = [slack |-> 0, event |-> Hello, kwargs |-> NoKwargs,
                   raised |-> FALSE, reg |-> NoHandle]
    /\ calls[2] = [slack |-> 0, event |-> Hello, kwargs |-> Spam,
                   raised |-> FALSE, reg |-> NoHandle]

Intervals == CountOps(ops, "interval")

\* C24: run calls time.sleep(interval) once in every cycle in which until
\* answered true, after the handlers of all events of the cycle and as the
\* last thing before the next rtm_read, also when the list was empty or the
\* connection was lost and restored; there is no such sleep before the first
\* rtm_read, nor between the calls of handlers.
C24_IntervalSleep ==
    /\ [](Intervals <= 1)
    /\ [](polls = 0 => Intervals = 0)
    /\ [](Intervals = 1 =>
             /\ pc = "fetch"
             /\ ops[Len(ops)] = Op("interval", 0, 0, IntervalMs)
             /\ CountOps(ops, "until") = 1
             /\ i = Len(events) + 1)
    /\ []((pc = "fetch" /\ polls > 0) => Intervals = 1)
    /\ [][polls' = polls + 1 => Intervals = (IF polls = 0 THEN 0 ELSE 1)]_vars
    /\ [][(pc \in {"events", "handlers"} /\ pc' = "fetch") =>
             /\ pc = "events"
             /\ i > Len(events)
             /\ ops' = Append(ops, Op("interval", 0, 0, IntervalMs))]_vars

\* The first rtm_read lost the connection, connect_with_retry restored it,
\* until was asked about the empty list, and run has slept.
C24_Witness ==
    /\ Lost
    /\ polls = 1
    /\ pc = "fetch"
    /\ events = <<>>
    /\ ops[Len(ops)].op = "interval"

\* C25: self._slack holds the wrapper of the run while the run is in its
\* loop, one wrapper for one run, and holds no wrapper once run has returned
\* or raised.
C25_WrapperDiscarded ==
    /\ InLoop => (slack = wrapper.id /\ slack = runs)
    /\ pc = "idle" => slack = 0

\* C26: an event without the key 'type' is handled as an event of type '':
\* the registrations for '' and those for '*' are called for it, each once,
\* and no registration for another type is.
C26_NoTypeIsEmptyType ==
    (EventDone /\ "type" \notin DOMAIN events[i]) =>
        /\ EventType(events[i]) = ""
        /\ todo = seen[""] \o seen["*"]
        /\ Rids(CallsFor(i)) = Rids(seen[""]) \o Rids(seen["*"])
        /\ \A t \in Types : \A k \in 1..Len(seen[t]) :
               TimesCalled(i, seen[t][k].rid) = IF t \in {"", "*"} THEN 1 ELSE 0

\* An event without 'type' has been handled by the handler of '' and by the
\* handler of '*'.
C26_Witness ==
    /\ EventDone
    /\ events[i] = NoType
    /\ Len(seen[""]) = 1
    /\ Len(seen["*"]) = 1
    /\ Rids(CallsFor(i)) = <<seen[""][1].rid, seen["*"][1].rid>>

\* C27: with retries = 0, connect_with_retry on a client that is not
\* connected raises FailedConnection with no rtm_connect and no sleep; so a
\* run with retries = 0 ends in FailedConnection when an rtm_read loses the
\* connection and leaves the client disconnected, and it reaches its first
\* rtm_read only with a client that was connected already.
C27_ZeroRetries ==
    /\ []((pc # "idle" /\ wrapper.retries = 0) =>
             /\ Connects = 0
             /\ Sleeps = <<>>)
    /\ [][(pc = "cwr" /\ wrapper.retries = 0) =>
             IF connected
               THEN pc' = (IF ret = "init" THEN "fetch" ELSE "until")
               ELSE pc' = "cwr_loop"]_vars
    /\ [][(pc = "cwr_loop" /\ wrapper.retries = 0) =>
             /\ pc' = "idle"
             /\ outcome' = "FailedConnection"
             /\ ops' = ops
             /\ polls' = polls
             /\ calls' = calls]_vars
    /\ [][(wrapper.retries = 0 /\ polls = 0 /\ polls' = 1) => wrapper.inner = 0]_vars

\* A run with retries = 0 whose first rtm_read lost the connection and left
\* the client disconnected: connect_with_retry has nothing to try.
C27_Witness ==
    /\ pc = "cwr_loop"
    /\ wrapper.retries = 0
    /\ ops = <<Op("read_lost", 0, 0, 0), Op("cwr", 0, 0, 0)>>
    /\ polls = 1

\* C28: the list of handlers of an event is built before the first of them
\* is called and stays as it is while they are called: a registration a
\* callback makes meanwhile is not called for that event.  The list of each
\* later event, of the same rtm_read or a later one, is built from the
\* registry as it is then, so the new registration is called for every
\* later event of its type (every later event if it is for '*').
C28_RegistrationDuringDispatch ==
    /\ [][(pc = "handlers" /\ pc' = "handlers") => (todo' = todo /\ seen' = seen)]_vars
    /\ [][(pc = "events" /\ pc' = "handlers") =>
             /\ seen' = handlers
             /\ todo' = handlers[EventType(events[i])] \o handlers["*"]]_vars
    /\ [](pc = "handlers" =>
             /\ todo = seen[EventType(events[i])] \o seen["*"]
             /\ RegsOf(seen) \subseteq RegsOf(handlers)
             /\ \A r \in RegsOf(handlers) \ RegsOf(seen) : TimesCalled(i, r.rid) = 0
             /\ \A k \in 1..Len(calls) :
                    (calls[k].reg # NoHandle /\ SelectOps(ops, "call")[k].ev < i) =>
                        \E r \in RegsOf(seen) :
                            /\ r.kwargs = calls[k].reg.kwargs
                            /\ \E n \in 1..Len(seen[calls[k].reg.type]) :
                                   seen[calls[k].reg.type][n] = r
                            /\ r.rid > SelectOps(ops, "call")[k].rid)
    /\ [](EventDone => Rids(CallsFor(i)) = Rids(todo))

\* The handler of 'hello' registered a handler for '*' while it was called
\* for the first event of [hello, goodbye]: the new handler was not called
\* for that event and was called for the second.
C28_Witness ==
    /\ EventDone
    /\ events = <<Hello, Goodbye>>
    /\ i = 2
    /\ Len(calls) = 2
    /\ calls[1].reg = [type |-> "*", kwargs |-> Spam]
    /\ SelectOps(ops, "call") = <<Op("call", 1, 1, 0), Op("call", 2, 2, 0)>>

====
